---- MODULE Spec2Model ----
(***************************************************************************)
(* A model of pyMemeLabeler's src/main.py: ImageRenamer renames the image  *)
(* files of one directory after the text OCR finds in them.                *)
(*                                                                         *)
(* A Python str is a sequence of one-character strings, so that slicing,  *)
(* lower-casing, regular-expression substitution and formatting are       *)
(* computed character by character, as the code computes them.            *)
(***************************************************************************)
EXTENDS Integers, Sequences, FiniteSets, TLC

\* ------------------------------------------------------------------ bounds

\* The longest OCR text the sanitizer is applied to exhaustively.
MaxTextLen == 4
\* The largest length budget the sanitizer is applied with exhaustively.
MaxBudget == 4
\* The number of repeated generate_unique_filename calls on one growing set.
MaxCalls == 11
\* The most entries the target directory holds.
MaxEntries == 3

\* ------------------------------------------------------------------- state

VARIABLES
    process_all,    \* whether --process-all is on the command line
    target,         \* what the directory argument names
    dir,            \* the directory: each entry's current name, or Gone
    skip_existing,  \* ImageRenamer.skip_existing
    pcMain,         \* where main() and process_directory() stand
    image_files,    \* process_directory's image_files
    existing_names, \* process_directory's existing_names, shared by the tasks
    task,           \* each process_image call: its position and its locals
    log,            \* the logging calls made
    san,    \* the sanitizer applied to one text: its input, its two passes
    gen     \* generate_unique_filename called repeatedly on one growing set

progVars == <<process_all, target, dir, skip_existing, pcMain, image_files,
              existing_names, task, log>>
vars == <<process_all, target, dir, skip_existing, pcMain, image_files,
          existing_names, task, log, san, gen>>

\* ------------------------------------------------------- characters, strings

\* "e-acute" stands for one non-ASCII letter (U+00E9): \w matches it,
\* [a-zA-Z0-9] does not.
AsciiLower == {"a", "b", "c", "d", "e", "f", "g", "h", "i", "j", "k", "l", "m",
               "n", "o", "p", "q", "r", "s", "t", "u", "v", "w", "x", "y", "z"}
AsciiUpper == {"A", "B", "C", "D", "E", "F", "G", "H", "I", "J", "K", "L", "M",
               "N", "O", "P", "Q", "R", "S", "T", "U", "V", "W", "X", "Y", "Z"}
AsciiDigit == {"0", "1", "2", "3", "4", "5", "6", "7", "8", "9"}
NonAsciiLetter == {"e-acute"}
Whitespace == {" ", "\n", "\t"}

\* [a-zA-Z0-9]
IsAsciiAlnum(c) == c \in AsciiLower \cup AsciiUpper \cup AsciiDigit
\* \w on a str pattern: Unicode letters and digits, and the underscore.
IsWord(c) == IsAsciiAlnum(c) \/ c \in NonAsciiLetter \/ c = "_"
\* \s on a str pattern.
IsSpace(c) == c \in Whitespace

\* str.lower() on one character.
LowerChar(c) ==
    CASE c = "A" -> "a" [] c = "B" -> "b" [] c = "C" -> "c" [] c = "D" -> "d"
      [] c = "E" -> "e" [] c = "F" -> "f" [] c = "G" -> "g" [] c = "H" -> "h"
      [] c = "I" -> "i" [] c = "J" -> "j" [] c = "K" -> "k" [] c = "L" -> "l"
      [] c = "M" -> "m" [] c = "N" -> "n" [] c = "O" -> "o" [] c = "P" -> "p"
      [] c = "Q" -> "q" [] c = "R" -> "r" [] c = "S" -> "s" [] c = "T" -> "t"
      [] c = "U" -> "u" [] c = "V" -> "v" [] c = "W" -> "w" [] c = "X" -> "x"
      [] c = "Y" -> "y" [] c = "Z" -> "z" [] OTHER -> c

\* Python evaluates an argument once, before the call. TLC hands an operator
\* its argument unevaluated, so the string functions bind their argument as
\* the one element of a set, Only({... : s \in {arg}}), which evaluates it once.
Only(S) == CHOOSE x \in S : TRUE

\* re.sub(r"[^\w\s]", "_", text) on one character.
SubSpecialChar(c) == IF IsWord(c) \/ IsSpace(c) THEN c ELSE "_"
\* text.replace("\n", " ") on one character.
ReplaceNewlineChar(c) == IF c = "\n" THEN " " ELSE c

\* What the character-wise function f makes of the character c.
CharMap(f, c) ==
    CASE f = "lower" -> LowerChar(c)
      [] f = "sub_special" -> SubSpecialChar(c)
      [] f = "replace_newline" -> ReplaceNewlineChar(c)

\* The characters lo..hi of s, each replaced by what f makes of it. The range
\* is halved, so that the depth of the evaluation is the logarithm of its
\* length.
RECURSIVE MapRange(_, _, _, _)
MapRange(f, s, lo, hi) ==
    IF lo > hi THEN <<>>
    ELSE IF lo = hi THEN <<CharMap(f, s[lo])>>
    ELSE Only({MapRange(f, s, lo, m) \o MapRange(f, s, m + 1, hi)
               : m \in {(lo + hi) \div 2}})

\* A function of the string that works character by character.
MapChars(f, str) == Only({MapRange(f, s, 1, Len(s)) : s \in {str}})

\* The characters lo..hi of s, with every character of cs that follows a
\* character of cs left out and every other character of cs replaced by "_":
\* what a substitution of "_" for every maximal run of cs leaves of the range.
RECURSIVE SubRunsRange(_, _, _, _)
SubRunsRange(s, cs, lo, hi) ==
    IF lo > hi THEN <<>>
    ELSE IF lo = hi
         THEN IF s[lo] \notin cs THEN <<s[lo]>>
              ELSE IF lo > 1 /\ s[lo - 1] \in cs THEN <<>> ELSE <<"_">>
    ELSE Only({SubRunsRange(s, cs, lo, m) \o SubRunsRange(s, cs, m + 1, hi)
               : m \in {(lo + hi) \div 2}})

\* re.sub of "_" for every maximal run of characters of cs.
SubRuns(str, cs) == Only({SubRunsRange(s, cs, 1, Len(s)) : s \in {str}})

\* str.lower()
Lower(str) == MapChars("lower", str)

Min(a, b) == IF a <= b THEN a ELSE b
Max(a, b) == IF a >= b THEN a ELSE b

\* s[:n], with Python's meaning of a negative n (drop the last -n characters).
SlicePrefix(str, n) ==
    Only({IF n >= 0 THEN SubSeq(s, 1, Min(n, Len(s)))
                    ELSE SubSeq(s, 1, Max(0, Len(s) + n))
          : s \in {str}})

\* s.startswith(p)
StartsWith(str, p) ==
    \E s \in {str} : Len(s) >= Len(p) /\ SubSeq(s, 1, Len(p)) = p

\* The number of leading characters of s that are in the set cs.
RECURSIVE LeadCount(_, _)
LeadCount(str, cs) ==
    Only({IF s = <<>> \/ s[1] \notin cs THEN 0 ELSE 1 + LeadCount(Tail(s), cs)
          : s \in {str}})

\* The number of trailing characters of s that are in the set cs.
RECURSIVE TrailCount(_, _)
TrailCount(str, cs) ==
    Only({IF s = <<>> \/ s[Len(s)] \notin cs THEN 0
          ELSE 1 + TrailCount(SubSeq(s, 1, Len(s) - 1), cs)
          : s \in {str}})

\* s.rstrip(cs)
RStrip(str, cs) == Only({SubSeq(s, 1, Len(s) - TrailCount(s, cs)) : s \in {str}})
\* s.lstrip(cs)
LStrip(str, cs) == Only({SubSeq(s, LeadCount(s, cs) + 1, Len(s)) : s \in {str}})
\* s.strip(): leading and trailing whitespace removed.
Strip(str) == RStrip(LStrip(str, Whitespace), Whitespace)

\* str(n) for n >= 0: the decimal digits of n.
DigitChar(d) == <<"0", "1", "2", "3", "4", "5", "6", "7", "8", "9">>[d + 1]
RECURSIVE Str(_)
Str(n) == IF n < 10 THEN <<DigitChar(n)>> ELSE Str(n \div 10) \o <<DigitChar(n % 10)>>

\* ------------------------------------------- clean_text_for_filename (91-103)

\* re.sub(r"[^\w\s]", "_", text)
SubSpecial(str) == MapChars("sub_special", str)

\* text.replace("\n", " ")
ReplaceNewline(str) == MapChars("replace_newline", str)

\* re.sub(r"\s+", "_", text): every maximal run of whitespace becomes one "_".
SubSpaceRuns(str) == SubRuns(str, Whitespace)

\* re.sub(r"_+", "_", text): every maximal run of "_" becomes one "_".
SubUnderscoreRuns(str) == SubRuns(str, {"_"})

\* re.sub(r"^[^a-zA-Z0-9]+", "", text)
RECURSIVE StripLeadingNonAlnum(_)
StripLeadingNonAlnum(str) ==
    Only({IF s = <<>> \/ IsAsciiAlnum(s[1]) THEN s
          ELSE StripLeadingNonAlnum(Tail(s))
          : s \in {str}})

\* clean_text_for_filename without line 97: runs of "_" are left as they are.
clean_text_for_filename_NoCollapse(text, max_length) ==
    RStrip(
        SlicePrefix(
            StripLeadingNonAlnum(SubSpaceRuns(ReplaceNewline(SubSpecial(text)))),
            max_length),
        {"_"})

\* clean_text_for_filename with line 103 as text.rstrip('_')[:max_length]: the
\* trailing underscores are stripped before the cut instead of after it.
clean_text_for_filename_StripFirst(text, max_length) ==
    SlicePrefix(
        RStrip(StripLeadingNonAlnum(SubUnderscoreRuns(SubSpaceRuns(
            ReplaceNewline(SubSpecial(text))))), {"_"}),
        max_length)

clean_text_for_filename(text, max_length) ==
    RStrip(
        SlicePrefix(
            StripLeadingNonAlnum(SubUnderscoreRuns(SubSpaceRuns(
                ReplaceNewline(SubSpecial(text))))),
            max_length),
        {"_"})

\* ------------------------------------------------------ pathlib, Optional

\* The index of the last "." of name, 0 when it has none (str.rfind + 1).
RECURSIVE LastDot(_)
LastDot(name) ==
    Only({IF s = <<>> THEN 0
          ELSE IF s[Len(s)] = "." THEN Len(s)
          ELSE LastDot(SubSeq(s, 1, Len(s) - 1))
          : s \in {name}})

\* Path.suffix: the name from its last dot on, unless that dot is the first
\* or the last character of the name.
PathSuffix(name) ==
    Only({IF 1 < i /\ i < Len(name) THEN SubSeq(name, i, Len(name)) ELSE <<>>
          : i \in {LastDot(name)}})

\* Path.stem: the name without its suffix.
PathStem(name) == SubSeq(name, 1, Len(name) - Len(PathSuffix(name)))

\* Optional[str]: None, or one string.
None == <<>>
Some(s) == <<s>>
\* The truth value Python gives an Optional[str]: None and "" are false.
Truthy(opt) == opt # None /\ opt[1] # <<>>

\* ----------------------------------------- generate_unique_filename (105-115)

MAX_FILENAME_LENGTH == 255

\* Line 108 without the sentinel: f"{base_name}{extension}".
FirstName_NoSentinel(base_name, extension) == base_name \o extension

\* f"_{base_name}{extension}"
FirstName(base_name, extension) == <<"_">> \o base_name \o extension

\* Line 112 with room for a counter of one digit only:
\* base_name[:self.MAX_FILENAME_LENGTH - len(extension) - 3].
TruncatedBase_OneDigit(base_name, extension, counter) ==
    SlicePrefix(base_name, MAX_FILENAME_LENGTH - Len(extension) - 3)

\* base_name[:self.MAX_FILENAME_LENGTH - len(str(counter)) - len(extension) - 2]
TruncatedBase(base_name, extension, counter) ==
    SlicePrefix(base_name,
                MAX_FILENAME_LENGTH - Len(Str(counter)) - Len(extension) - 2)

\* Line 113 with the counter left out of the name: f"_{truncated_base}{extension}".
CounterName_NoCounter(base_name, extension, counter) ==
    <<"_">> \o TruncatedBase(base_name, extension, counter) \o extension

\* f"_{truncated_base}_{counter}{extension}"
CounterName(base_name, extension, counter) ==
    <<"_">> \o TruncatedBase(base_name, extension, counter)
          \o <<"_">> \o Str(counter) \o extension

\* Line 110 as an `if`: the name is tested against the set once only.
NameTaken_Once(new_name, counter, names) ==
    counter = 0 /\ new_name \in names

\* Line 110 with a set keyed by the stem: a name is taken when a name of the
\* set has its stem, whatever the extension.
NameTaken_AnyExtension(new_name, counter, names) ==
    \E n \in names : PathStem(n) = PathStem(new_name)

\* The loop test of line 110, `new_name in existing_names`, made when the
\* counter has the given value.
NameTaken(new_name, counter, names) == new_name \in names

\* ------------------------------------------------ the directory's entries

\* The string of n characters c.
Rep(c, n) == [i \in 1..n |-> c]

\* What the target directory may hold. kind: a regular file or a directory;
\* ocr: what pytesseract.image_to_string returns for the file, or Raises when
\* Image.open or the OCR raises.
Raises == <<"raises">>
Everyday == <<
    [name |-> <<"p", "h", "o", "t", "o", ".", "p", "n", "g">>, kind |-> "file",
     ocr |-> <<<<"H", "e", "l", "l", "o", " ", "W", "o", "r", "l", "d", "!", "\n">>>>],
    [name |-> <<"s", "c", "a", "n", ".", "P", "N", "G">>, kind |-> "file",
     ocr |-> <<<<" ", "\n">>>>],
    [name |-> <<"_", "a", "l", "r", "e", "a", "d", "y", "_", "t", "a", "g", "g",
                "e", "d", ".", "j", "p", "g">>, kind |-> "file",
     ocr |-> <<<<"S", "a", "l", "e", " ", "5", "0", "%">>>>],
    [name |-> <<"s", "a", "l", "e", ".", "j", "p", "g">>, kind |-> "file",
     ocr |-> <<<<"S", "a", "l", "e", " ", "5", "0", "%">>>>],
    [name |-> <<"s", "a", "l", "e", ".", "p", "n", "g">>, kind |-> "file",
     ocr |-> <<<<"S", "a", "l", "e", " ", "5", "0", "%">>>>],
    [name |-> <<"b", "r", "o", "k", "e", "n", ".", "p", "n", "g">>, kind |-> "file",
     ocr |-> Raises],
    [name |-> <<"_", "m", "e", "m", "e", "_", "2", ".", "p", "n", "g">>,
     kind |-> "file", ocr |-> <<<<>>>>],
    [name |-> <<"n", "o", "t", "e", "s", ".", "t", "x", "t">>, kind |-> "file",
     ocr |-> Raises],
    [name |-> <<"a", "l", "b", "u", "m", ".", "j", "p", "e", "g">>, kind |-> "dir",
     ocr |-> Raises],
    [name |-> <<".", "j", "p", "g">>, kind |-> "file", ocr |-> Raises]
>>

\* Entries at the limit of the file name's length: three images whose text
\* has MAX_FILENAME_LENGTH characters, and ten subdirectories whose names are
\* the first candidate of such a .jpg image and its candidates of the
\* counters 1 to 9, each of MAX_FILENAME_LENGTH characters but the first.
WallText == Rep("a", MAX_FILENAME_LENGTH) \o <<"\n">>
AtLimit ==
    <<[name |-> <<"w", "a", "l", "l", ".", "j", "p", "g">>, kind |-> "file",
       ocr |-> <<WallText>>],
      [name |-> <<"w", "a", "l", "l", "2", ".", "j", "p", "g">>, kind |-> "file",
       ocr |-> <<WallText>>],
      [name |-> <<"w", "a", "l", "l", ".", "j", "p", "e", "g">>, kind |-> "file",
       ocr |-> <<WallText>>],
      [name |-> <<"_">> \o Rep("a", MAX_FILENAME_LENGTH - 6)
                       \o <<".", "j", "p", "g">>,
       kind |-> "dir", ocr |-> Raises]>>
    \o [k \in 1..9 |->
          [name |-> <<"_">> \o Rep("a", MAX_FILENAME_LENGTH - 7)
                           \o <<"_">> \o Str(k) \o <<".", "j", "p", "g">>,
           kind |-> "dir", ocr |-> Raises]]

Pool == Everyday \o AtLimit

Ids == 1..Len(Everyday)
WallIds == {Len(Everyday) + 1, Len(Everyday) + 2, Len(Everyday) + 3}
TakenIds == (Len(Everyday) + 4)..Len(Pool)

\* An entry that a rename has replaced is gone from the directory.
Gone == <<>>

\* The names directory.iterdir() yields.
Listing(d) == {d[i] : i \in {j \in DOMAIN d : d[j] # Gone}}

\* The entry that has the given name, as a set: empty when there is none.
EntryNamed(d, name) == {i \in DOMAIN d : d[i] = name}

\* --------------------------------------------------- main (168-182), __init__

\* Line 174: --process-all is a store_true option whose dest is skip_existing,
\* so args.skip_existing is True exactly when the flag is given.
ParseSkipExisting(flag) == flag

\* The function harnesses while the program itself runs.
SanIdle == [pc |-> "off"]
GenIdle == [pc |-> "off"]

\* The state of a process_image call that has not started.
Queued == [pc |-> "queued", text |-> None, base_name |-> <<>>, counter |-> 0,
           new_name |-> <<>>]

Init ==
    /\ process_all \in BOOLEAN
    /\ target \in {"directory", "file", "missing"}
    /\ \E ids \in SUBSET Ids :
         /\ Cardinality(ids) <= MaxEntries
         /\ target # "directory" => ids = {}
         /\ dir = [i \in ids |-> Pool[i].name]
    /\ skip_existing = TRUE    \* the default of __init__ (25), until main sets it
    /\ pcMain = "main"
    /\ image_files = {}
    /\ existing_names = {}
    /\ task = [i \in {} |-> Queued]
    /\ log = {}
    /\ san = SanIdle
    /\ gen = GenIdle

\* Lines 179-181: the arguments are parsed and the ImageRenamer is built.
Main ==
    /\ pcMain = "main"
    /\ skip_existing' = ParseSkipExisting(process_all)
    /\ pcMain' = "process_directory"
    /\ UNCHANGED <<process_all, target, dir, image_files, existing_names, task,
                   log, san, gen>>

\* ------------------------------------- get_image_files, _is_valid_image_file

VALID_EXTENSIONS ==
    {<<".", "j", "p", "g">>, <<".", "j", "p", "e", "g">>, <<".", "p", "n", "g">>,
     <<".", "g", "i", "f">>, <<".", "P", "N", "G">>, <<"J", "P", "G">>}

\* _is_valid_image_file without the is_file() test of lines 73-74.
IsValidImageFile_AnyKind(i, name, skip) ==
    /\ ~(skip /\ StartsWith(PathStem(name), <<"_">>))
    /\ Lower(PathSuffix(name)) \in VALID_EXTENSIONS

\* _is_valid_image_file (71-79) for the entry i, whose name is `name`.
IsValidImageFile(i, name, skip) ==
    /\ Pool[i].kind = "file"
    /\ ~(skip /\ StartsWith(PathStem(name), <<"_">>))
    /\ Lower(PathSuffix(name)) \in VALID_EXTENSIONS

\* Lines 63-67: the ImageFile of the entry i. Its path is the entry's name in
\* the target directory.
ImageFile(i, name) ==
    [id |-> i, path |-> name, original_name |-> PathStem(name),
     extension |-> Lower(PathSuffix(name))]

\* get_image_files (55-69). The list is in iterdir's order, which is any order
\* and which nothing reads: the model keeps the list's elements.
get_image_files(d, skip) ==
    {ImageFile(i, d[i]) : i \in {j \in DOMAIN d : d[j] # Gone
                                       /\ IsValidImageFile(j, d[j], skip)}}

\* ----------------------------------------------- process_directory (146-166)

\* Path.iterdir that yields nothing, instead of raising, for a path that is
\* missing or no directory.
IterdirRaises_Never(t) == FALSE

\* Path.iterdir (59): it raises FileNotFoundError for a path that does not
\* exist and NotADirectoryError for one that is no directory.
IterdirRaises(t) == t # "directory"

\* Line 148 when the target is no directory: iterdir raises, nothing catches
\* it, and main ends with the exception.
ProcessDirectoryRaises ==
    /\ pcMain = "process_directory"
    /\ IterdirRaises(target)
    /\ pcMain' = "aborted"
    /\ UNCHANGED <<process_all, target, dir, skip_existing, image_files,
                   existing_names, task, log, san, gen>>

\* Lines 148-151: no file to process.
ProcessDirectoryEmpty ==
    /\ pcMain = "process_directory"
    /\ ~IterdirRaises(target)
    /\ get_image_files(dir, skip_existing) = {}
    /\ log' = log \cup {[level |-> "info", what |-> "no files", file |-> 0]}
    /\ pcMain' = "returned"
    /\ UNCHANGED <<process_all, target, dir, skip_existing, image_files,
                   existing_names, task, san, gen>>

\* Lines 148-163: the files are listed, the directory's names are
\* snapshotted and one process_image call per file is handed to the executor.
ProcessDirectorySubmit ==
    /\ pcMain = "process_directory"
    /\ ~IterdirRaises(target)
    /\ get_image_files(dir, skip_existing) # {}
    /\ image_files' = get_image_files(dir, skip_existing)
    /\ existing_names' = Listing(dir)
    /\ task' = [i \in {f.id : f \in get_image_files(dir, skip_existing)} |-> Queued]
    /\ log' = log \cup {[level |-> "info", what |-> "processing", file |-> 0]}
    /\ pcMain' = "executor"
    /\ UNCHANGED <<process_all, target, dir, skip_existing, san, gen>>

\* ------------------------------------------ extract_text_from_image (81-89)

\* extract_text_from_image without its try/except: the exception of Image.open
\* or of the OCR reaches the caller.
extract_text_from_image_NoCatch(i) ==
    IF Pool[i].ocr = Raises
    THEN [raised |-> TRUE, text |-> None, logged |-> FALSE]
    ELSE [raised |-> FALSE, logged |-> FALSE,
          text |-> IF Pool[i].ocr[1] # <<>> THEN Some(Strip(Pool[i].ocr[1]))
                                            ELSE None]

\* extract_text_from_image for the file i: whether an exception leaves it,
\* what it returns and whether it logged an error.
extract_text_from_image(i) ==
    IF Pool[i].ocr = Raises
    THEN [raised |-> FALSE, text |-> None, logged |-> TRUE]
    ELSE [raised |-> FALSE, logged |-> FALSE,
          text |-> IF Pool[i].ocr[1] # <<>> THEN Some(Strip(Pool[i].ocr[1]))
                                            ELSE None]

\* ------------------------------------------------- process_image (117-144)

\* The ImageFile whose process_image call is task i.
FileOf(i) == CHOOSE f \in image_files : f.id = i

\* f"meme_{len(existing_names)}"
FallbackBase(names) == <<"m", "e", "m", "e", "_">> \o Str(Cardinality(names))

\* Lines 123-131 with the fallback taken for every file.
BaseNameOf_AlwaysFallback(text, extension, names) == FallbackBase(names)

\* Lines 123-131.
BaseNameOf(text, extension, names) ==
    IF ~Truthy(text) THEN FallbackBase(names)
    ELSE clean_text_for_filename(text[1],
                                 MAX_FILENAME_LENGTH - Len(extension) - 2)

\* process_image without its try/except: the exception leaves the call.
ProcessImageError_NoCatch(t, i, what) ==
    [task |-> [t EXCEPT !.pc = "raised"], log |-> {}]

\* Lines 143-144: an exception raised inside process_image is caught and
\* logged, and the call returns.
ProcessImageError(t, i, what) ==
    [task |-> [t EXCEPT !.pc = "failed"],
     log |-> {[level |-> "error", what |-> what, file |-> i]}]

\* Path.rename (138): the directory after the entry named src got the name
\* dst. An entry that had that name is replaced.
Renamed(d, src, dst) ==
    [i \in DOMAIN d |-> IF d[i] = src THEN dst
                        ELSE IF d[i] = dst THEN Gone ELSE d[i]]

\* Whether os.rename may succeed: the source exists, and the target is not a
\* directory.
RenamePossible(d, src, dst) ==
    /\ EntryNamed(d, src) # {}
    /\ \A i \in EntryNamed(d, dst) : Pool[i].kind = "file"

\* Line 121: a worker takes the call and the text is extracted.
Extract(i) ==
    /\ pcMain = "executor"
    /\ task[i].pc = "queued"
    /\ LET r == extract_text_from_image(i)
           e == ProcessImageError(task[i], i, "process")
       IN  IF r.raised
           THEN /\ task' = [task EXCEPT ![i] = e.task]
                /\ log' = log \cup e.log
           ELSE /\ task' = [task EXCEPT ![i] = [@ EXCEPT !.pc = "extracted",
                                                         !.text = r.text]]
                /\ log' = IF r.logged
                          THEN log \cup {[level |-> "error", what |-> "extract",
                                          file |-> i]}
                          ELSE log
    /\ UNCHANGED <<process_all, target, dir, skip_existing, pcMain, image_files,
                   existing_names, san, gen>>

\* Lines 123-131 and 107-108: the base name, and the first name to try.
BaseName(i) ==
    /\ task[i].pc = "extracted"
    /\ \E b \in {BaseNameOf(task[i].text, FileOf(i).extension, existing_names)} :
         task' = [task EXCEPT ![i] =
                     [@ EXCEPT !.pc = "test", !.base_name = b, !.counter = 0,
                               !.new_name = FirstName(b, FileOf(i).extension)]]
    /\ UNCHANGED <<process_all, target, dir, skip_existing, pcMain, image_files,
                   existing_names, log, san, gen>>

\* Lines 110-113: the name is in the set, the next counter's name is built.
Retry(i) ==
    /\ task[i].pc = "test"
    /\ NameTaken(task[i].new_name, task[i].counter, existing_names)
    /\ task' = [task EXCEPT ![i] =
                    [@ EXCEPT !.counter = @ + 1,
                              !.new_name = CounterName(task[i].base_name,
                                                       FileOf(i).extension,
                                                       task[i].counter + 1)]]
    /\ UNCHANGED <<process_all, target, dir, skip_existing, pcMain, image_files,
                   existing_names, log, san, gen>>

\* Lines 110, 115, 134-135: the name is not in the set and is chosen.
Found(i) ==
    /\ task[i].pc = "test"
    /\ ~NameTaken(task[i].new_name, task[i].counter, existing_names)
    /\ task' = [task EXCEPT ![i] = [@ EXCEPT !.pc = "rename"]]
    /\ UNCHANGED <<process_all, target, dir, skip_existing, pcMain, image_files,
                   existing_names, log, san, gen>>

\* Line 138: the rename succeeds.
Rename(i) ==
    /\ task[i].pc = "rename"
    /\ RenamePossible(dir, FileOf(i).path, task[i].new_name)
    /\ dir' = Renamed(dir, FileOf(i).path, task[i].new_name)
    /\ task' = [task EXCEPT ![i] = [@ EXCEPT !.pc = "add"]]
    /\ UNCHANGED <<process_all, target, skip_existing, pcMain, image_files,
                   existing_names, log, san, gen>>

\* Line 138: the rename raises an OSError (no permission, the name is too
\* long for the file system, the target exists and the platform refuses to
\* replace it, ...).
RenameFails(i) ==
    /\ task[i].pc = "rename"
    /\ LET e == ProcessImageError(task[i], i, "rename")
       IN  /\ task' = [task EXCEPT ![i] = e.task]
           /\ log' = log \cup e.log
    /\ UNCHANGED <<process_all, target, dir, skip_existing, pcMain, image_files,
                   existing_names, san, gen>>

\* Lines 139-141 without line 139: the rename is logged, the set stays.
AddName_NoInsert(i) ==
    /\ task[i].pc = "add"
    /\ task' = [task EXCEPT ![i] = [@ EXCEPT !.pc = "done"]]
    /\ log' = log \cup {[level |-> "info", what |-> "renamed", file |-> i]}
    /\ UNCHANGED <<process_all, target, dir, skip_existing, pcMain, image_files,
                   existing_names, san, gen>>

\* Lines 139-141: the new name is added to the set, the rename is logged.
AddName(i) ==
    /\ task[i].pc = "add"
    /\ existing_names' = existing_names \cup {task[i].new_name}
    /\ task' = [task EXCEPT ![i] = [@ EXCEPT !.pc = "done"]]
    /\ log' = log \cup {[level |-> "info", what |-> "renamed", file |-> i]}
    /\ UNCHANGED <<process_all, target, dir, skip_existing, pcMain, image_files,
                   san, gen>>

\* Lines 158-166: every call has ended. list() takes the results of
\* executor.map: an exception that left a call is raised again here, and
\* nothing catches it.
ProcessDirectoryReturn ==
    /\ pcMain = "executor"
    /\ \A i \in DOMAIN task : task[i].pc \in {"done", "failed", "raised"}
    /\ pcMain' = IF \E i \in DOMAIN task : task[i].pc = "raised"
                 THEN "aborted" ELSE "returned"
    /\ UNCHANGED <<process_all, target, dir, skip_existing, image_files,
                   existing_names, task, log, san, gen>>

Next ==
    \/ Main
    \/ ProcessDirectoryRaises
    \/ ProcessDirectoryEmpty
    \/ ProcessDirectorySubmit
    \/ \E i \in DOMAIN task : Extract(i)
    \/ \E i \in DOMAIN task : BaseName(i)
    \/ \E i \in DOMAIN task : Retry(i)
    \/ \E i \in DOMAIN task : Found(i)
    \/ \E i \in DOMAIN task : Rename(i)
    \/ \E i \in DOMAIN task : RenameFails(i)
    \/ \E i \in DOMAIN task : AddName(i)
    \/ ProcessDirectoryReturn

Spec == Init /\ [][Next]_vars

\* Every thread that can take a step takes one in the end.
SpecFair == Spec /\ WF_vars(Next)

\* ------------------------------------------------ the run, one task at a time

\* The calls of process_image that have started and not ended.
Running == {i \in DOMAIN task :
               task[i].pc \in {"extracted", "test", "rename", "add"}}

\* The run in which the executor never has two calls in progress: a call is
\* started only when no other is running.
NextSequential ==
    \/ Main
    \/ ProcessDirectoryRaises
    \/ ProcessDirectoryEmpty
    \/ ProcessDirectorySubmit
    \/ \E i \in DOMAIN task : Running = {} /\ Extract(i)
    \/ \E i \in DOMAIN task : BaseName(i)
    \/ \E i \in DOMAIN task : Retry(i)
    \/ \E i \in DOMAIN task : Found(i)
    \/ \E i \in DOMAIN task : Rename(i)
    \/ \E i \in DOMAIN task : RenameFails(i)
    \/ \E i \in DOMAIN task : AddName(i)
    \/ ProcessDirectoryReturn

SpecSequential == Init /\ [][NextSequential]_vars

\* ------------------------------------------------------- the run, repeated

\* The program is started again on the same directory once a run has
\* returned, with the command line that makes skip_existing true (line 174).
\* The new process has a new file list and a new registry; the log file is
\* appended to.
RunAgain ==
    /\ pcMain = "returned"
    /\ process_all' = TRUE
    /\ skip_existing' = ParseSkipExisting(TRUE)
    /\ pcMain' = "process_directory"
    /\ image_files' = {}
    /\ existing_names' = {}
    /\ task' = [i \in {} |-> Queued]
    /\ UNCHANGED <<target, dir, log, san, gen>>

NextRepeated == Next \/ RunAgain

SpecRepeated == Init /\ [][NextRepeated]_vars

\* ------------------------------------- the run on names at the length limit

\* Like Init, on a directory of images with long texts, with or without the
\* subdirectories that have the names these images would get first.
InitAtLimit ==
    /\ process_all \in BOOLEAN
    /\ target \in {"directory", "file", "missing"}
    /\ \E ids \in SUBSET WallIds, taken \in {{}, TakenIds} :
         /\ target # "directory" => ids = {} /\ taken = {}
         /\ dir = [i \in ids \cup taken |-> Pool[i].name]
    /\ skip_existing = TRUE
    /\ pcMain = "main"
    /\ image_files = {}
    /\ existing_names = {}
    /\ task = [i \in {} |-> Queued]
    /\ log = {}
    /\ san = SanIdle
    /\ gen = GenIdle

SpecAtLimit == InitAtLimit /\ [][Next]_vars

\* ------------------------------------------------ the sanitizer on every text

\* One character of each class the sanitizer tells apart: an ASCII letter, a
\* digit, the underscore, a blank, a newline, a punctuation mark and a
\* non-ASCII letter.
SanAlphabet == {"a", "7", "_", " ", "\n", "!", "e-acute"}

SanTexts == UNION {[1..n -> SanAlphabet] : n \in 0..MaxTextLen}

\* The program's variables while only a function of it is exercised.
ProgramOff ==
    /\ process_all = FALSE
    /\ target = "directory"
    /\ dir = [i \in {} |-> Gone]
    /\ skip_existing = TRUE
    /\ pcMain = "off"
    /\ image_files = {}
    /\ existing_names = {}
    /\ task = [i \in {} |-> Queued]
    /\ log = {}

SanInit ==
    /\ ProgramOff
    /\ gen = GenIdle
    /\ \E t \in SanTexts, l \in 0..MaxBudget :
          san = [pc |-> "text", text |-> t, max_length |-> l,
                 once |-> <<>>, twice |-> <<>>]

\* clean_text_for_filename(text, max_length)
SanitizeOnce ==
    /\ san.pc = "text"
    /\ san' = [san EXCEPT !.pc = "once",
                          !.once = clean_text_for_filename(san.text, san.max_length)]
    /\ UNCHANGED <<progVars, gen>>

\* clean_text_for_filename applied to its own result, with the same budget.
SanitizeTwice ==
    /\ san.pc = "once"
    /\ san' = [san EXCEPT !.pc = "twice",
                          !.twice = clean_text_for_filename(san.once, san.max_length)]
    /\ UNCHANGED <<progVars, gen>>

SanNext == SanitizeOnce \/ SanitizeTwice

SpecSanitize == SanInit /\ [][SanNext]_vars

\* ------------------------- generate_unique_filename on one growing name set

\* Base names: short ones, one that ends like a disambiguated name, and long
\* ones around the lengths at which line 112 starts to cut (248 and 247
\* characters for ".jpg", one less for ".jpeg"), up to one character less than
\* MAX_FILENAME_LENGTH.
GenBases ==
    {<<"a">>, <<"a", "_", "1">>}
        \cup {Rep("a", n) : n \in {246, 247, 248, 249, MAX_FILENAME_LENGTH - 1}}

GenExtensions == {<<".", "j", "p", "g">>, <<".", "j", "p", "e", "g">>}

\* The names the first calls will try: the starting set is any subset of them.
GenSeeds(b, e) ==
    {FirstName(b, e), CounterName(b, e, 1), CounterName(b, e, 2),
     CounterName(b, e, 3)}

GenInit ==
    /\ ProgramOff
    /\ san = SanIdle
    /\ \E b \in GenBases, e \in GenExtensions :
         \E s0 \in SUBSET GenSeeds(b, e) :
            gen = [pc |-> "idle", base_name |-> b, extension |-> e,
                   existing_names |-> s0, counter |-> 0, new_name |-> <<>>,
                   calls |-> 0]

\* Lines 107-108: the call starts with the undisambiguated name.
GenCall ==
    /\ gen.pc = "idle"
    /\ gen.calls < MaxCalls
    /\ gen' = [gen EXCEPT !.pc = "test", !.counter = 0,
                          !.new_name = FirstName(gen.base_name, gen.extension)]
    /\ UNCHANGED <<progVars, san>>

\* Lines 110-113: the name is taken, so the next counter's name is built.
GenRetry ==
    /\ gen.pc = "test"
    /\ NameTaken(gen.new_name, gen.counter, gen.existing_names)
    /\ gen.counter <= MaxCalls + Cardinality(GenSeeds(gen.base_name, gen.extension))
    /\ gen' = [gen EXCEPT !.counter = gen.counter + 1,
                          !.new_name = CounterName(gen.base_name, gen.extension,
                                                   gen.counter + 1)]
    /\ UNCHANGED <<progVars, san>>

\* Lines 110, 115: the name is free and is returned.
GenReturn ==
    /\ gen.pc = "test"
    /\ ~NameTaken(gen.new_name, gen.counter, gen.existing_names)
    /\ gen' = [gen EXCEPT !.pc = "returned"]
    /\ UNCHANGED <<progVars, san>>

\* The caller adds the returned name to the set (as line 139 does) and may
\* call again.
GenRecord ==
    /\ gen.pc = "returned"
    /\ gen' = [gen EXCEPT !.pc = "idle",
                          !.existing_names = gen.existing_names \cup {gen.new_name},
                          !.calls = gen.calls + 1]
    /\ UNCHANGED <<progVars, san>>

GenNext == GenCall \/ GenRetry \/ GenReturn \/ GenRecord

SpecAllocate == GenInit /\ [][GenNext]_vars

\* A thread that is inside the call keeps running.
SpecAllocateFair == SpecAllocate /\ WF_vars(GenNext)

\* ------------------------------------------------------------------ claims

\* The tasks that have chosen their new name (lines 134-135 are behind them).
Chosen == {i \in DOMAIN task : task[i].pc \in {"rename", "add", "done"}}

\* C1: in every interleaving of the process_image tasks no rename targets a
\* name that is present in the directory or that another task has chosen: no
\* two files get the same new name and no file is replaced by a rename.
C1_NoNameChosenTwice ==
    /\ \A i \in DOMAIN dir : dir[i] # Gone
    /\ \A i, j \in Chosen : i # j => task[i].new_name # task[j].new_name
    /\ \A i \in DOMAIN task :
          task[i].pc = "rename" => task[i].new_name \notin Listing(dir)

\* Whether the name is a stem followed by a dot and one of jpg, jpeg, png,
\* gif in any letter case.
HasImageExtension(name) ==
    \E e \in {<<"j", "p", "g">>, <<"j", "p", "e", "g">>, <<"p", "n", "g">>,
              <<"g", "i", "f">>} :
        /\ Len(name) > Len(e) + 1
        /\ name[Len(name) - Len(e)] = "."
        /\ Lower(SubSeq(name, Len(name) - Len(e) + 1, Len(name))) = e

\* The files get_image_files has returned (none when the run ended at line 151).
Discovered == {f.id : f \in image_files}

\* C4: without flags a file whose name starts with `_` is excluded from
\* discovery, and with --process-all it is included.
C4_ProcessAllIncludesUnderscore ==
    pcMain \in {"executor", "returned"} =>
        \A i \in DOMAIN dir :
            (Pool[i].kind = "file" /\ HasImageExtension(Pool[i].name)
                /\ Pool[i].name[1] = "_")
            => (i \in Discovered <=> process_all)

\* C5 as stated: a file whose OCR step raised is skipped: it keeps its name,
\* the registry gains no entry for it, and the error is logged.
C5_RaisingFileSkipped ==
    \A i \in DOMAIN task :
        (Pool[i].ocr = Raises /\ task[i].pc # "queued") =>
            /\ [level |-> "error", what |-> "extract", file |-> i] \in log
            /\ dir[i] = Pool[i].name
            /\ task[i].pc = "done" => task[i].new_name \notin existing_names

\* C5, amended: a file whose OCR step raised is treated as a file without
\* text. The error is logged, the call goes on with the fallback base name
\* meme_<N>, only the rename call can still fail it, and once renamed the
\* file has left its original name and the registry gains the new name.
C5_RaisingFileGetsFallbackName ==
    \A i \in DOMAIN task :
        (Pool[i].ocr = Raises /\ task[i].pc # "queued") =>
            /\ [level |-> "error", what |-> "extract", file |-> i] \in log
            /\ task[i].text = None
            /\ task[i].pc = "failed" =>
                  [level |-> "error", what |-> "rename", file |-> i] \in log
            /\ task[i].pc \in {"test", "rename", "add", "done"} =>
                  /\ \E n \in 0..Cardinality(existing_names) :
                        task[i].base_name = <<"m", "e", "m", "e", "_">> \o Str(n)
                  /\ StartsWith(task[i].new_name, <<"_", "m", "e", "m", "e", "_">>)
            /\ task[i].pc \in {"add", "done"} => dir[i] # Pool[i].name
            /\ task[i].pc = "done" => task[i].new_name \in existing_names

\* C5's case: the OCR step raised for broken.png, and the file has been
\* renamed to _meme_2.png while the other file of the directory is untouched.
C5_Witness ==
    /\ DOMAIN dir = {1, 6}
    /\ DOMAIN task = {1, 6}
    /\ task[6].pc = "done"
    /\ dir[6] = <<"_", "m", "e", "m", "e", "_", "2", ".", "p", "n", "g">>
    /\ dir[6] \in existing_names
    /\ task[1].pc = "queued"

\* A task has ended: its file is renamed, or it failed and the error is logged.
Finished(i) ==
    \/ task[i].pc = "done"
    \/ /\ task[i].pc = "failed"
       /\ \E e \in log : e.level = "error" /\ e.file = i

\* C6: a failure while one file is processed never aborts the run: once the
\* tasks are submitted, every task ends, renamed or failed and logged, and
\* process_directory returns normally.
C6_RunCompletes ==
    (pcMain = "executor") ~>
        (pcMain = "returned" /\ \A i \in DOMAIN task : Finished(i))

\* C6's case: the run has returned after one task failed in its rename call
\* and another task, whose OCR step raised, renamed its file all the same.
C6_Witness ==
    /\ pcMain = "returned"
    /\ \E i, j \in DOMAIN task :
          /\ task[i].pc = "failed"
          /\ task[j].pc = "done"
          /\ Pool[j].ocr = Raises

\* C7: every successful rename keeps the file's extension exactly as it was,
\* letter case included.
C7_ExtensionKept ==
    \A i \in DOMAIN dir :
        dir[i] # Gone => PathSuffix(dir[i]) = PathSuffix(Pool[i].name)

\* C10: get_image_files returns exactly the directory's regular files whose
\* lower-cased extension is jpg, jpeg, png or gif and, when skip_existing is
\* true, whose name does not start with `_`; it returns nothing when no entry
\* matches. Each ImageFile holds the entry's name, stem and lower-cased suffix.
C10_DiscoversExactly ==
    pcMain \in {"executor", "returned"} =>
        /\ Discovered = {i \in DOMAIN dir :
                            /\ Pool[i].kind = "file"
                            /\ HasImageExtension(Pool[i].name)
                            /\ skip_existing => Pool[i].name[1] # "_"}
        /\ \A f \in image_files :
              /\ f.path = Pool[f.id].name
              /\ f.original_name \o PathSuffix(f.path) = f.path
              /\ f.extension = Lower(PathSuffix(f.path))

\* C10's case: of a directory with an upper-case image, a `_` image and a
\* directory named like an image, only the first is returned when
\* skip_existing is true.
C10_Witness ==
    /\ pcMain = "executor"
    /\ skip_existing
    /\ DOMAIN dir = {2, 3, 9}
    /\ Discovered = {2}

\* The name the claim describes: `_<B><ext>` when that is free, otherwise
\* `_<truncated B>_<k><ext>` for the smallest k >= 1 whose name is free.
C2_Described(b, e, s) ==
    IF FirstName(b, e) \notin s THEN FirstName(b, e)
    ELSE LET free == {k \in 1..(Cardinality(s) + 1) : CounterName(b, e, k) \notin s}
             k == CHOOSE k \in free : \A j \in free : k <= j
         IN  CounterName(b, e, k)

\* C2: generate_unique_filename(B, ext, S) returns a name that is not in S:
\* `_<B><ext>` when that is free, otherwise `_<truncated B>_<counter><ext>`
\* for the smallest counter >= 1 whose name is free.
C2_ReturnsFreeName ==
    gen.pc = "returned" =>
        /\ gen.new_name \notin gen.existing_names
        /\ gen.new_name = C2_Described(gen.base_name, gen.extension,
                                       gen.existing_names)

\* C2's case: a call on a base name long enough to be cut has returned a
\* disambiguated name with a two-digit counter.
C2_Witness ==
    /\ gen.pc = "returned"
    /\ Len(gen.base_name) = 249
    /\ gen.counter = 10
    /\ FirstName(gen.base_name, gen.extension) \in gen.existing_names
    /\ Len(gen.new_name) = MAX_FILENAME_LENGTH

\* The loop has run at most once per name of the set, and the names of
\* different counter values are different names.
LoopBounded ==
    gen.pc \in {"test", "returned"} =>
        /\ gen.counter <= Cardinality(gen.existing_names)
        /\ \A j, k \in 1..(gen.counter + 1) :
              j # k => CounterName(gen.base_name, gen.extension, j)
                         # CounterName(gen.base_name, gen.extension, k)

\* C3: for a base name shorter than the maximum filename length, every call
\* of generate_unique_filename on the growing set returns: the loop is left,
\* after at most one round per name of the set, because the names of
\* different counter values are different, also where the base is cut.
C3_Terminates ==
    /\ []LoopBounded
    /\ (gen.pc = "test") ~> (gen.pc = "returned")

\* C3's case: the last of MaxCalls calls on a base name that line 112 cuts
\* has returned after several rounds of the loop.
C3_Witness ==
    /\ gen.pc = "returned"
    /\ gen.calls = MaxCalls - 1
    /\ gen.counter >= 10
    /\ Len(TruncatedBase(gen.base_name, gen.extension, gen.counter))
           < Len(gen.base_name)

HasAdjacentUnderscores(s) ==
    \E i \in 1..(Len(s) - 1) : s[i] = "_" /\ s[i + 1] = "_"

\* C8: for every text T and budget L >= 0, clean_text_for_filename(T, L) has
\* at most L characters, holds no whitespace character and no two adjacent
\* underscores, and starts with an ASCII letter or digit unless it is empty.
C8_SanitizedShape ==
    san.pc \in {"once", "twice"} =>
        /\ Len(san.once) <= san.max_length
        /\ \A i \in 1..Len(san.once) : ~IsSpace(san.once[i])
        /\ ~HasAdjacentUnderscores(san.once)
        /\ (san.once # <<>> => IsAsciiAlnum(san.once[1]))

\* C8's case: a text with punctuation, blanks and a leading underscore, longer
\* than its budget, has been sanitized to a non-empty name.
C8_Witness ==
    /\ san.pc = "once"
    /\ san.text = <<"_", "a", "!", " ">>
    /\ san.max_length = 2
    /\ san.once = <<"a">>

\* C9: sanitization is idempotent: clean_text_for_filename applied to its own
\* result with the same budget L >= 0 returns that result unchanged.
C9_SanitizeIdempotent ==
    san.pc = "twice" => san.twice = san.once

\* C9's case: the first pass cut the text at the budget and stripped the
\* underscore the cut left at the end; the second pass has run.
C9_Witness ==
    /\ san.pc = "twice"
    /\ san.text = <<"a", " ", "7", "!">>
    /\ san.max_length = 2
    /\ san.once = <<"a">>

\* The names the directory held when the run began: no entry is created or
\* removed before line 153 takes the registry's first content.
InitialListing == {Pool[i].name : i \in DOMAIN dir}

\* The first candidate of task k, f"_{base_name}{extension}" (line 107).
FirstNameOf(k) == FirstName(task[k].base_name, FileOf(k).extension)

\* C11: the extension is part of the uniqueness key. Two files with the same
\* base name and different extensions, whose first candidates are neither in
\* the directory's initial listing nor the name of any other file, both get
\* the undisambiguated name `_<base><ext>`, whichever of them runs first.
C11_ExtensionInKey ==
    \A i, j \in Chosen :
        (/\ i # j
         /\ task[i].base_name = task[j].base_name
         /\ FileOf(i).extension # FileOf(j).extension
         /\ \A k \in {i, j} :
               FirstNameOf(k) \notin
                   InitialListing \cup {task[m].new_name : m \in Chosen \ {k}})
        => \A k \in {i, j} : task[k].counter = 0 /\ task[k].new_name = FirstNameOf(k)

\* sale.jpg and sale.png, both read as "Sale 50%", have become _Sale_50.jpg
\* and _Sale_50.png.
C11_Witness ==
    /\ DOMAIN task = {4, 5}
    /\ task[4].pc = "done" /\ task[5].pc = "done"
    /\ task[4].base_name = task[5].base_name
    /\ dir[4] = <<"_", "S", "a", "l", "e", "_", "5", "0", ".", "j", "p", "g">>
    /\ dir[5] = <<"_", "S", "a", "l", "e", "_", "5", "0", ".", "p", "n", "g">>
    /\ {dir[4], dir[5]} \subseteq existing_names

\* C12: when the target path does not exist or is no directory, the run
\* aborts in process_directory before any processing: no task is started, no
\* registry is built, no entry is renamed and nothing is logged as processed.
C12_AbortsBeforeProcessing ==
    target # "directory" =>
        /\ pcMain \in {"main", "process_directory", "aborted"}
        /\ DOMAIN task = {}
        /\ image_files = {}
        /\ existing_names = {}
        /\ log = {}
        /\ \A i \in DOMAIN dir : dir[i] = Pool[i].name

\* The run on a path that is a regular file has ended with the exception.
C12_Witness == target = "file" /\ pcMain = "aborted"

\* C13: the registry is the directory's current listing: once it is built,
\* and whenever no task stands between its rename (138) and its insertion
\* (139), the names in the registry are exactly the names of the entries
\* present in the directory.
C13_RegistryIsListing ==
    (/\ pcMain \in {"executor", "returned"}
     /\ image_files # {}
     /\ \A i \in DOMAIN task : task[i].pc # "add")
    => existing_names = Listing(dir)

\* The tasks whose rename succeeded and whose insertion (139) is made.
Inserted == {i \in DOMAIN task : task[i].pc = "done"}

\* The registry holds, beyond the initial listing, only names whose rename
\* has succeeded.
C14_InsertedOnlyAfterRename ==
    existing_names = InitialListing \cup {task[i].new_name : i \in Inserted}

\* A task that ended in the except branch left its file under its original
\* name.
C14_FailedRenameKeepsName ==
    \A i \in DOMAIN task : task[i].pc = "failed" => dir[i] = Pool[i].name

\* Each successful rename has made the registry one entry larger.
C14_OneEntryPerRename ==
    Cardinality(existing_names) =
        Cardinality(InitialListing) + Cardinality(Inserted)

\* C14: the new name is inserted only after the rename has succeeded: a
\* failed rename leaves the registry and the file's name as they were, and
\* every successful rename adds exactly one entry to the registry.
C14_InsertAfterRename ==
    image_files # {} =>
        /\ C14_InsertedOnlyAfterRename
        /\ C14_FailedRenameKeepsName
        /\ C14_OneEntryPerRename

\* The first two parts of C14 alone.
C14_OrderAndFailure ==
    image_files # {} =>
        C14_InsertedOnlyAfterRename /\ C14_FailedRenameKeepsName

\* C15: every name process_image chooses, and every candidate it tests on
\* the way, has at most MAX_FILENAME_LENGTH characters and starts with "_":
\* the first candidate and the candidates of every counter reached.
C15_NameFitsAndMarked ==
    \A i \in DOMAIN task :
        task[i].pc \in {"test", "rename", "add", "done"} =>
            /\ Len(task[i].new_name) <= MAX_FILENAME_LENGTH
            /\ Len(task[i].new_name) >= 1
            /\ task[i].new_name[1] = "_"

\* wall.jpeg got its first candidate, of 254 characters, and wall.jpg, in a
\* directory that has the first ten names, the name of counter 10: a base cut
\* to 247 characters and a name of exactly MAX_FILENAME_LENGTH characters.
C15_Witness ==
    /\ Len(Everyday) + 1 \in DOMAIN task
    /\ Len(Everyday) + 3 \in DOMAIN task
    /\ task[Len(Everyday) + 1].pc = "done"
    /\ task[Len(Everyday) + 1].counter = 10
    /\ Len(dir[Len(Everyday) + 1]) = MAX_FILENAME_LENGTH
    /\ task[Len(Everyday) + 3].pc = "done"
    /\ task[Len(Everyday) + 3].counter = 0
    /\ Len(dir[Len(Everyday) + 3]) = MAX_FILENAME_LENGTH - 1

\* Whether the OCR of the entry i yields text that is not empty once stripped.
YieldsText(i) == Pool[i].ocr # Raises /\ Strip(Pool[i].ocr[1]) # <<>>

\* The name `_<base><ext>` the entry i gets when it is processed alone: its
\* sanitized text between the sentinel and its lowercased extension.
CandidateOf(i) ==
    FirstName(clean_text_for_filename(
                  Strip(Pool[i].ocr[1]),
                  MAX_FILENAME_LENGTH - Len(Lower(PathSuffix(Pool[i].name))) - 2),
              Lower(PathSuffix(Pool[i].name)))

\* The premise of C16 on the files of the run: all yield text, their
\* candidate names differ from each other and none is in the initial listing.
NoCollision ==
    /\ DOMAIN task # {}
    /\ \A i \in DOMAIN task : YieldsText(i)
    /\ \A i \in DOMAIN task : CandidateOf(i) \notin InitialListing
    /\ \A i, j \in DOMAIN task : i # j => CandidateOf(i) # CandidateOf(j)

\* C16: when every file yields text and the candidate names are pairwise
\* distinct and absent from the initial listing, the name of every file is
\* the same in every interleaving: each task chooses its candidate without a
\* counter, a file whose rename is made has that name, and every other file
\* has the name it had.
C16_AssignmentDeterministic ==
    NoCollision =>
        \A i \in DOMAIN task :
            /\ task[i].pc \in {"test", "rename", "add", "done"} =>
                  task[i].counter = 0 /\ task[i].new_name = CandidateOf(i)
            /\ dir[i] = IF task[i].pc \in {"add", "done"} THEN CandidateOf(i)
                                                          ELSE Pool[i].name

\* photo.png, sale.jpg and sale.png, all with text, have all been renamed.
C16_Witness ==
    /\ DOMAIN task = {1, 4, 5}
    /\ NoCollision
    /\ \A i \in DOMAIN task : task[i].pc = "done"
    /\ pcMain = "returned"
    /\ dir[1] = <<"_", "H", "e", "l", "l", "o", "_", "W", "o", "r", "l", "d",
                  ".", "p", "n", "g">>

\* C17: when the tasks run one at a time, every file present in the directory
\* is named in the registry whenever a task tests or chooses a name and
\* whenever no task is running (a task that stands between lines 138 and 139
\* has renamed its file and not yet inserted the name), no rename targets a
\* name present in the directory, the entries keep pairwise distinct names
\* and the directory keeps the number of entries it had.
C17_SequentialRunKeepsFiles ==
    /\ Cardinality(Running) <= 1
    /\ (image_files # {} /\ \A i \in DOMAIN task : task[i].pc # "add")
           => Listing(dir) \subseteq existing_names
    /\ \A i \in DOMAIN task :
          task[i].pc = "rename" => task[i].new_name \notin Listing(dir)
    /\ \A i \in DOMAIN dir : dir[i] # Gone
    /\ \A i, j \in DOMAIN dir : i # j => dir[i] # dir[j]
    /\ Cardinality(Listing(dir)) = Cardinality(DOMAIN dir)

\* scan.PNG and broken.png, whose fallback names collide when their tasks
\* overlap, and sale.jpg have been renamed one after the other, to three names.
C17_Witness ==
    /\ DOMAIN task = {2, 4, 6}
    /\ pcMain = "returned"
    /\ \A i \in DOMAIN task : task[i].pc = "done"
    /\ Cardinality(Listing(dir)) = 3
    /\ \A i \in DOMAIN dir : dir[i][1] = "_"

\* The files some run, this one or an earlier one, has renamed (line 141).
RenamedByARun ==
    {i \in DOMAIN dir : [level |-> "info", what |-> "renamed", file |-> i] \in log}

\* C18: every name a run gives to a file starts with the sentinel "_", so a
\* file that a run has renamed is not returned by get_image_files when
\* skip_existing is true: a later run with skip_existing true has no task for
\* it and does not rename it.
C18_RenamedFilesSkipped ==
    /\ \A i \in DOMAIN task :
          task[i].pc \in {"test", "rename", "add", "done"} =>
              StartsWith(task[i].new_name, <<"_">>)
    /\ \A i \in RenamedByARun :
          /\ dir[i] # Gone => ~IsValidImageFile(i, dir[i], TRUE)
          /\ (skip_existing /\ i \in DOMAIN task) => task[i].pc = "done"

\* The first run renamed photo.png and failed to rename sale.jpg; the second
\* run, with skip_existing true, had a task for sale.jpg only and renamed it.
C18_Witness ==
    /\ DOMAIN dir = {1, 4}
    /\ skip_existing
    /\ DOMAIN task = {4}
    /\ task[4].pc = "done"
    /\ RenamedByARun = {1, 4}
    /\ [level |-> "error", what |-> "rename", file |-> 4] \in log
    /\ dir[1] = <<"_", "H", "e", "l", "l", "o", "_", "W", "o", "r", "l", "d",
                  ".", "p", "n", "g">>

====
